---------------------------- MODULE Spec2Model ----------------------------
(***************************************************************************)
(* A model of the tutoring backend (backend/rag_engine.py, s3_storage.py,  *)
(* main.py, db.py, its.py): the PDF corpus (local upload directory and S3  *)
(* bucket), the Chroma collection behind the process-wide index, the       *)
(* display names, the conversation log, and the operations upload, ingest, *)
(* delete, stats, set-display-name, the page resolver, query_rag, query,   *)
(* save_message and get_history.                                           *)
(*                                                                         *)
(* Every FastAPI handler is an `async def` that calls the blocking core    *)
(* functions without awaiting in between, so each operation runs to        *)
(* completion on the event loop: one action per operation.                 *)
(*                                                                         *)
(* Text is a sequence of one-character strings. File names, page labels    *)
(* and citation strings are strings, joined with \o as the f-strings do.   *)
(***************************************************************************)
EXTENDS Integers, Sequences, FiniteSets, TLC

VARIABLES
    s3Enabled,    \* s3_storage.s3_client is not None
    hasPypdf,     \* rag_engine.HAS_PYPDF
    localDir,     \* ./uploaded_pdfs : file name -> PDF or NoFile
    s3Dir,        \* the bucket's pdfs/ prefix : file name -> PDF or NoFile
    collection,   \* the Chroma collection "course_materials": a set of entries
    index,        \* rag_engine.index: identity of the process-wide index object
    nextId,       \* number of node ids handed out so far (ids are fresh UUIDs)
    req,          \* the request being served (query specification only)
    ret,          \* what the last operation returned
    namesFile,    \* display_names.json
    rows,         \* conversations.db: the committed rows of table conversations, by id
    pending       \* rows inserted on db.conn whose transaction is not committed yet

vars == <<s3Enabled, hasPypdf, localDir, s3Dir, collection, index, nextId, req, ret,
          namesFile, rows, pending>>

\* Files and index; the display names; the conversation log.
corpusVars == <<s3Enabled, hasPypdf, localDir, s3Dir, collection, index, nextId>>
namesVars == <<namesFile>>
chatVars == <<rows, pending>>

-----------------------------------------------------------------------------
(* Bounds of the model. *)

\* Node ids the collection may hand out in one behaviour.
MaxEntries == 2

\* Retrieved source nodes in one response (similarity_top_k is 10 in the code).
MaxNodes == 3

-----------------------------------------------------------------------------
(* Text helpers: Python's str operations on sequences of characters. *)

Min(a, b) == IF a <= b THEN a ELSE b

\* c * n
Rep(c, n) == [i \in 1..n |-> c]

\* s[:n]
Take(s, n) == SubSeq(s, 1, Min(n, Len(s)))

\* key in text  (the empty key is in every text)
Contains(text, key) ==
    \E i \in 0..(Len(text) - Len(key)) : SubSeq(text, i + 1, i + Len(key)) = key

\* text.find(key) >= 0
Found(text, key) == Contains(text, key)

Whitespace == {" "}

RECURSIVE LStrip(_)
LStrip(s) == IF s # <<>> /\ Head(s) \in Whitespace THEN LStrip(Tail(s)) ELSE s

RECURSIVE RStrip(_)
RStrip(s) ==
    IF s # <<>> /\ s[Len(s)] \in Whitespace THEN RStrip(SubSeq(s, 1, Len(s) - 1)) ELSE s

\* s.strip()
Strip(s) == RStrip(LStrip(s))

-----------------------------------------------------------------------------
(* The corpus: PDFs as sequences of pages. *)

Files == {"a.pdf", "b.pdf"}

\* The files in the order a directory listing / S3 listing yields them.
SortedFiles == <<"a.pdf", "b.pdf">>

\* A file is a record: no file at that path, a file pypdf cannot open, or a
\* PDF with its pages' extracted texts.
NoFile == [kind |-> "none", pages |-> <<>>]
Corrupt == [kind |-> "corrupt", pages |-> <<>>]
Pdf(pages) == [kind |-> "pdf", pages |-> pages]

\* A page whose extract_text() raises.
PageErr == <<"extract_text raises">>

TX == Rep("x", 30)
TY == Rep("y", 20)
TZ == Rep("z", 10)

\* A page holding the 50-character key TX TY verbatim.
PageKey == <<"h", "h">> \o TX \o TY \o <<"t", "t">>

\* A page holding only the 30-character prefix TX of that key.
PagePrefix == <<"h">> \o TX \o <<"w", "w">>

\* A page holding neither.
PageOther == Rep("w", 12)

PdfScan == Pdf(<<PageOther, PagePrefix, PageKey>>)
PdfSkip == Pdf(<<PageErr, PageKey>>)
PdfOne == Pdf(<<PageOther>>)
PdfNoPages == Pdf(<<>>)

IsPdf(p) == p.kind = "pdf"


-----------------------------------------------------------------------------
(* s3_storage.py *)

\* How a boto3 call ends: normally, with botocore's ClientError (the only
\* exception s3_storage.py catches), or with any other exception
\* (EndpointConnectionError, S3UploadFailedError, OSError, ...).
S3Outcomes == {"ok", "ClientError", "OtherError"}

is_s3_enabled == s3Enabled

\* download_file_from_s3(f"pdfs/{f}", dir / f) with the directory as `local`:
\* the value returned ("True"/"False") or "raise", and the directory after.
\* A key the bucket does not hold is a ClientError (404).
download_file_from_s3(f, oc, local) ==
    IF ~is_s3_enabled THEN [status |-> "False", local |-> local]
    ELSE IF oc = "OtherError" THEN [status |-> "raise", local |-> local]
    ELSE IF oc = "ClientError" \/ s3Dir[f] = NoFile
         THEN [status |-> "False", local |-> local]
    ELSE [status |-> "True", local |-> [local EXCEPT ![f] = s3Dir[f]]]

\* The subsequence of names whose file is present in dir.
RECURSIVE Present(_, _)
Present(names, dir) ==
    IF names = <<>> THEN <<>>
    ELSE IF dir[Head(names)] # NoFile
         THEN <<Head(names)>> \o Present(Tail(names), dir)
         ELSE Present(Tail(names), dir)

\* list_s3_pdfs()
list_s3_pdfs(oc) ==
    IF ~is_s3_enabled THEN [status |-> "ok", files |-> <<>>]
    ELSE IF oc = "OtherError" THEN [status |-> "raise", files |-> <<>>]
    ELSE IF oc = "ClientError" THEN [status |-> "ok", files |-> <<>>]
    ELSE [status |-> "ok", files |-> Present(SortedFiles, s3Dir)]

\* ensure_pdf_local(f, PDF_UPLOAD_DIR): whether a path is returned (or "raise"),
\* and the directory after.
ensure_pdf_local(f, oc, local) ==
    IF local[f] # NoFile THEN [status |-> "True", local |-> local]
    ELSE IF is_s3_enabled THEN download_file_from_s3(f, oc, local)
    ELSE [status |-> "False", local |-> local]

-----------------------------------------------------------------------------
(* rag_engine.get_accurate_page_number *)

Unknown == "?"

MinSnippetLen == 10
SearchKeyLen == 50
PrefixLen == 30

\* content_snippet[:50].strip()
SearchText(snippet) == Strip(Take(snippet, SearchKeyLen))

\* The test of line 108 on one page's extracted text.
PageMatches(text, search_text) ==
    Contains(text, search_text) \/ Found(text, Take(search_text, PrefixLen))

\* The loop leaving at the first page whose extraction raises.
RECURSIVE ScanUntilError(_, _, _)
ScanUntilError(pages, search_text, n) ==
    IF n > Len(pages) THEN Unknown
    ELSE IF pages[n] = PageErr THEN Unknown
    ELSE IF Contains(pages[n], search_text)
            \/ Found(pages[n], Take(search_text, PrefixLen)) THEN ToString(n)
    ELSE ScanUntilError(pages, search_text, n + 1)

\* The loop of lines 102-112 from 1-based page n on: the first page that
\* matches, as a string; a page whose extraction raises is skipped.
RECURSIVE ScanPages(_, _, _)
ScanPages(pages, search_text, n) ==
    IF n > Len(pages) THEN Unknown
    ELSE IF pages[n] = PageErr THEN ScanPages(pages, search_text, n + 1)
    ELSE IF PageMatches(pages[n], search_text) THEN ToString(n)
    ELSE ScanPages(pages, search_text, n + 1)

\* Lines 90-112 with the file at pdf_path being `pdf`: the string returned,
\* or "raise" when open() / PdfReader raises on a file pypdf cannot read.
\* Falling out of the loop reaches the final return "?" of line 116.
ReadAndScan(pdf, snippet) ==
    IF pdf = Corrupt THEN "raise"
    ELSE IF snippet = <<>> \/ Len(snippet) < MinSnippetLen THEN Unknown
    ELSE ScanPages(pdf.pages, SearchText(snippet), 1)

\* The try block of lines 75-112 for PDF_UPLOAD_DIR / f: the string returned
\* (or "raise") and the directory after; a missing file may be fetched from
\* S3, the download ending as oc.
ResolveBody(f, snippet, oc, local) ==
    IF local[f] = NoFile /\ is_s3_enabled
    THEN LET e == ensure_pdf_local(f, oc, local) IN
         IF e.status = "raise" THEN [page |-> "raise", local |-> e.local]
         ELSE IF e.status = "False" THEN [page |-> Unknown, local |-> e.local]
         ELSE [page |-> ReadAndScan(e.local[f], snippet), local |-> e.local]
    ELSE IF local[f] = NoFile THEN [page |-> Unknown, local |-> local]
    ELSE [page |-> ReadAndScan(local[f], snippet), local |-> local]

\* The resolver without the `except Exception` of line 113.
ResolveUncaught(f, snippet, oc, local) ==
    IF ~hasPypdf THEN [page |-> Unknown, local |-> local]
    ELSE ResolveBody(f, snippet, oc, local)

\* get_accurate_page_number(PDF_UPLOAD_DIR / f, snippet): lines 71-72, then
\* the try block under `except Exception` (line 113), which falls through to
\* return "?". A result of "raise" would be an exception reaching the caller.
get_accurate_page_number(f, snippet, oc, local) ==
    IF ~hasPypdf THEN [page |-> Unknown, local |-> local]
    ELSE LET b == ResolveBody(f, snippet, oc, local) IN
         IF b.page = "raise" THEN [page |-> Unknown, local |-> b.local] ELSE b

-----------------------------------------------------------------------------
(* rag_engine.query_rag: refusal detection and citation assembly *)

\* "I cannot find this information" (line 199)
RefusalPhrase ==
    <<"I", " ", "c", "a", "n", "n", "o", "t", " ", "f", "i", "n", "d", " ", "t", "h", "i", "s", " ", "i", "n", "f", "o", "r", "m", "a", "t", "i", "o", "n">>

\* The refusal prompts.py asks the model for:
\* "I cannot find this information in the provided course content."
CanonicalRefusal ==
    RefusalPhrase \o
    <<" ", "i", "n", " ", "t", "h", "e", " ", "p", "r", "o", "v", "i", "d", "e", "d", " ", "c", "o", "u", "r", "s", "e", " ", "c", "o", "n", "t", "e", "n", "t", ".">>

\* A marker for a metadata key the node does not carry.
Absent == "<absent>"

\* metadata.get("file_name", "Unknown File")
MetaFileName(node) ==
    IF node.file_name = Absent THEN "Unknown File" ELSE node.file_name

\* metadata.get("page_label", "?")
MetaPageLabel(node) ==
    IF node.page_label = Absent THEN Unknown ELSE node.page_label

\* (Path(PDF_UPLOAD_DIR) / file_name).exists()
Exists(file_name, local) == file_name \in Files /\ local[file_name] # NoFile

\* Whether lines 214-216 send the node to the page resolver.
Resolves(node, local) ==
    /\ hasPypdf
    /\ MetaFileName(node) # ""
    /\ MetaFileName(node) # "Unknown File"
    /\ Exists(MetaFileName(node), local)

\* Lines 207-237 for one node: its file_name and the page_label its citation
\* carries. get_content() is the node's text; the file exists, so the
\* resolver downloads nothing.
NodeCitation(node, local) ==
    LET file_name == MetaFileName(node)
        page_label == MetaPageLabel(node)
    IN  IF Resolves(node, local)
        THEN LET accurate_page ==
                     get_accurate_page_number(file_name, node.content, "ok", local).page
             IN  [file_name |-> file_name,
                  page_label |-> IF accurate_page # Unknown THEN accurate_page
                                 ELSE page_label]
        ELSE [file_name |-> file_name, page_label |-> page_label]

\* f"{file_name}|{page_label}"
CitationKey(c) == c.file_name \o "|" \o c.page_label

\* f"{file_name} (Page {page_label})"
CitationText(c) == c.file_name \o " (Page " \o c.page_label \o ")"

\* The loop without the `citation_key not in seen` test.
RECURSIVE AssembleWithoutSeen(_, _, _)
AssembleWithoutSeen(nodes, local, acc) ==
    IF nodes = <<>> THEN acc
    ELSE LET c == NodeCitation(Head(nodes), local) IN
         AssembleWithoutSeen(Tail(nodes), local,
             [seen |-> acc.seen \cup {CitationKey(c)},
              citations |-> Append(acc.citations, CitationText(c)),
              cited |-> Append(acc.cited, c),
              calls |-> acc.calls + (IF Resolves(Head(nodes), local) THEN 1 ELSE 0)])

\* The loop of lines 206-242 over the remaining nodes. acc carries the loop's
\* state: seen (the keys), citations (the strings), and two records of the
\* run: cited (the (file_name, page_label) behind each string) and calls (how
\* often the page resolver ran).
RECURSIVE AssembleCitations(_, _, _)
AssembleCitations(nodes, local, acc) ==
    IF nodes = <<>> THEN acc
    ELSE LET node == Head(nodes)
             c == NodeCitation(node, local)
             calls == acc.calls + (IF Resolves(node, local) THEN 1 ELSE 0)
         IN  IF CitationKey(c) \notin acc.seen
             THEN AssembleCitations(Tail(nodes), local,
                      [seen |-> acc.seen \cup {CitationKey(c)},
                       citations |-> Append(acc.citations, CitationText(c)),
                       cited |-> Append(acc.cited, c),
                       calls |-> calls])
             ELSE AssembleCitations(Tail(nodes), local, [acc EXCEPT !.calls = calls])

NoCitations == [seen |-> {}, citations |-> <<>>, cited |-> <<>>, calls |-> 0]

\* The refusal test as an equality with the canonical refusal.
IsRefusalExact(answer_text) == answer_text = CanonicalRefusal

\* Line 199
IsRefusal(answer_text) == Contains(answer_text, RefusalPhrase)

\* Lines 196-244: the value query_rag returns for the engine's response
\* (answer_text, source_nodes).
QueryResult(answer_text, nodes, local) ==
    LET a == IF IsRefusal(answer_text) THEN NoCitations
             ELSE AssembleCitations(nodes, local, NoCitations)
    IN  [op |-> "query_rag", status |-> "ok", answer |-> answer_text,
         citations |-> a.citations, cited |-> a.cited, calls |-> a.calls]

-----------------------------------------------------------------------------
(* rag_engine.ingest_pdfs, delete_pdf_from_database, get_index_stats *)

\* What one file contributes to load_data(): one Document per page, its
\* page_label the 1-based page number. SimpleDirectoryReader skips a file its
\* reader cannot parse.
LoadFile(f, pdf) ==
    IF ~IsPdf(pdf) \/ (\E i \in 1..Len(pdf.pages) : pdf.pages[i] = PageErr) THEN <<>>
    ELSE [i \in 1..Len(pdf.pages) |->
             [file_name |-> f, page_label |-> ToString(i), text |-> pdf.pages[i]]]

\* SimpleDirectoryReader(pdf_directory).load_data() over the files named.
RECURSIVE LoadData(_, _)
LoadData(names, local) ==
    IF names = <<>> THEN <<>>
    ELSE LoadFile(Head(names), local[Head(names)]) \o LoadData(Tail(names), local)

\* The entries VectorStoreIndex.from_documents adds for docs: every page text
\* of the model fits one chunk, so one node per document, each under a fresh
\* node id (ids are new UUIDs at every parse); Chroma adds, it does not clear.
NewEntries(docs, first) ==
    {[id |-> first + i, file_name |-> docs[i].file_name,
      page_label |-> docs[i].page_label, text |-> docs[i].text] : i \in 1..Len(docs)}

\* Lines 137-147: the sync of S3 into the directory, file by file; dl gives how
\* each download ends. The value download_file_from_s3 returns is not looked
\* at; an exception it does not catch leaves ingest_pdfs.
RECURSIVE SyncFromS3(_, _, _)
SyncFromS3(names, dl, local) ==
    IF names = <<>> THEN [raised |-> FALSE, failed |-> FALSE, local |-> local]
    ELSE IF local[Head(names)] # NoFile THEN SyncFromS3(Tail(names), dl, local)
    ELSE LET d == download_file_from_s3(Head(names), dl[Head(names)], local) IN
         IF d.status = "raise" THEN [raised |-> TRUE, failed |-> TRUE, local |-> local]
         ELSE LET r == SyncFromS3(Tail(names), dl, d.local) IN
              [r EXCEPT !.failed = r.failed \/ d.status = "False"]

\* Lines 137-147 as a whole: listing, then the sync.
S3Sync(listOc, dl, local) ==
    IF ~is_s3_enabled THEN [raised |-> FALSE, failed |-> FALSE, local |-> local]
    ELSE LET l == list_s3_pdfs(listOc) IN
         IF l.status = "raise" THEN [raised |-> TRUE, failed |-> TRUE, local |-> local]
         ELSE LET r == SyncFromS3(l.files, dl, local) IN
              [r EXCEPT !.failed = r.failed \/ listOc = "ClientError"]

IngestOk(n) == [op |-> "ingest", status |-> "success", document_count |-> n]
IngestError(msg) == [op |-> "ingest", status |-> "error", message |-> msg]
IngestRaised == [op |-> "ingest", status |-> "raised"]

\* Lines 149-159 without the `if not documents` test: the index is built from
\* whatever was loaded.
LoadAndIndexUnchecked(local, failed, loadOc, written) ==
    LET docs == LoadData(SortedFiles, local)
        n == Min(written, Len(docs))
    IN  IF Present(SortedFiles, local) = <<>> \/ loadOc = "raise"
        THEN [ret |-> IngestError("exception") @@ [stepFailed |-> TRUE],
              collection |-> collection, index |-> index, nextId |-> nextId]
        ELSE IF n < Len(docs)
        THEN [ret |-> IngestError("exception") @@ [stepFailed |-> TRUE],
              collection |-> collection \cup NewEntries(SubSeq(docs, 1, n), nextId),
              index |-> index, nextId |-> nextId + n]
        ELSE [ret |-> IngestOk(Len(docs)) @@ [stepFailed |-> failed],
              collection |-> collection \cup NewEntries(docs, nextId),
              index |-> index + 1, nextId |-> nextId + Len(docs)]

\* Lines 149-159 on the directory `local`: what is returned and the collection,
\* the index object and the id counter after. loadOc is how load_data ends,
\* written how many documents' entries reach Chroma before the index write
\* ends (all of them: it succeeds). stepFailed records whether any step of the
\* ingest failed; failed says whether one already did during the S3 sync.
LoadAndIndex(local, failed, loadOc, written) ==
    LET docs == LoadData(SortedFiles, local)
        n == Min(written, Len(docs))
    IN  IF Present(SortedFiles, local) = <<>> \/ loadOc = "raise"
        THEN \* SimpleDirectoryReader raises on an empty directory (line 158)
             [ret |-> IngestError("exception") @@ [stepFailed |-> TRUE],
              collection |-> collection, index |-> index, nextId |-> nextId]
        ELSE IF docs = <<>>
        THEN [ret |-> IngestError("No PDFs found") @@ [stepFailed |-> failed],
              collection |-> collection, index |-> index, nextId |-> nextId]
        ELSE IF n < Len(docs)
        THEN [ret |-> IngestError("exception") @@ [stepFailed |-> TRUE],
              collection |-> collection \cup NewEntries(SubSeq(docs, 1, n), nextId),
              index |-> index, nextId |-> nextId + n]
        ELSE [ret |-> IngestOk(Len(docs)) @@ [stepFailed |-> failed],
              collection |-> collection \cup NewEntries(docs, nextId),
              index |-> index + 1, nextId |-> nextId + Len(docs)]

\* ingest_pdfs(): the S3 sync (listOc and dl are how its calls end), then
\* lines 149-159. An exception of the sync is outside the try block.
ingest_pdfs(listOc, dl, loadOc, written) ==
    LET sync == S3Sync(listOc, dl, localDir)
        o == LoadAndIndex(sync.local, sync.failed, loadOc, written)
    IN  /\ localDir' = sync.local
        /\ IF sync.raised
           THEN /\ ret' = IngestRaised @@ [stepFailed |-> TRUE]
                /\ UNCHANGED <<collection, index, nextId>>
           ELSE /\ nextId + Len(LoadData(SortedFiles, sync.local)) <= MaxEntries
                /\ ret' = o.ret
                /\ collection' = o.collection
                /\ index' = o.index
                /\ nextId' = o.nextId
        /\ UNCHANGED <<s3Enabled, hasPypdf, s3Dir, req>>

\* The outcomes to choose for the downloads: one per file the sync fetches.
DownloadOutcomes ==
    {dl \in [Files -> S3Outcomes] :
        \A f \in Files : (~s3Enabled \/ localDir[f] # NoFile \/ s3Dir[f] = NoFile)
                            => dl[f] = "ok"}

\* POST /api/ingest
Ingest ==
    \E listOc \in (IF s3Enabled THEN S3Outcomes ELSE {"ok"}), dl \in DownloadOutcomes,
       loadOc \in {"ok", "raise"} :
        \E written \in 0..Len(LoadData(SortedFiles, S3Sync(listOc, dl, localDir).local)) :
            ingest_pdfs(listOc, dl, loadOc, written)

\* How a call on the Chroma client ends.
ChromaOutcomes == {"ok", "error"}

\* collection.get(where={"file_name": pdf_filename})["ids"]
IdsOf(pdf_filename) == {e.id : e \in {x \in collection : x.file_name = pdf_filename}}

\* A delete that removes one of the ids found instead of all of them.
DeleteOneId(pdf_filename, oc) ==
    IF oc = "error" THEN [result |-> FALSE, collection |-> collection]
    ELSE IF IdsOf(pdf_filename) # {}
    THEN [result |-> TRUE,
          collection |-> {e \in collection :
                             e.id # CHOOSE i \in IdsOf(pdf_filename) :
                                        \A j \in IdsOf(pdf_filename) : i <= j}]
    ELSE [result |-> TRUE, collection |-> collection]

\* A delete whose get() has no `where` filter.
DeleteUnfiltered(pdf_filename, oc) ==
    IF oc = "error" THEN [result |-> FALSE, collection |-> collection]
    ELSE [result |-> TRUE, collection |-> {}]

\* A delete that reports success and removes nothing.
DeleteKeepsEntries(pdf_filename, oc) ==
    IF oc = "error" THEN [result |-> FALSE, collection |-> collection]
    ELSE [result |-> TRUE, collection |-> collection]

\* delete_pdf_from_database(pdf_filename): the value returned and the
\* collection after.
delete_pdf_from_database(pdf_filename, oc) ==
    IF oc = "error" THEN [result |-> FALSE, collection |-> collection]
    ELSE IF IdsOf(pdf_filename) # {}
    THEN [result |-> TRUE,
          collection |-> {e \in collection : e.id \notin IdsOf(pdf_filename)}]
    ELSE [result |-> TRUE, collection |-> collection]

DeleteNames == Files \cup {"missing.pdf"}

\* A call of delete_pdf_from_database (delete_source of the core's interface).
DeleteSource(f, oc) ==
    LET d == delete_pdf_from_database(f, oc) IN
    /\ collection' = d.collection
    /\ ret' = [op |-> "delete_source", arg |-> f, result |-> d.result]
    /\ UNCHANGED <<s3Enabled, hasPypdf, localDir, s3Dir, index, nextId, req>>

\* get_index_stats()
get_index_stats(oc) ==
    IF oc = "error" THEN [status |-> "error"]
    ELSE [status |-> "success", document_count |-> Cardinality(collection)]

Stats(oc) ==
    /\ ret' = [op |-> "stats"] @@ get_index_stats(oc)
    /\ UNCHANGED <<s3Enabled, hasPypdf, localDir, s3Dir, collection, index, nextId, req>>

-----------------------------------------------------------------------------
(* main.upload_pdf *)

\* The PDFs an instructor uploads.
StorePdfs == {PdfNoPages, PdfOne}

UploadNames == Files \cup {"notes.txt"}

\* file.filename.endswith(".pdf")
EndsWithPdf(name) == name \in Files

\* upload_file_to_s3(file_path): the value returned ("True"/"False") or
\* "raise", and the bucket after.
upload_file_to_s3(f, content, oc) ==
    IF ~is_s3_enabled THEN [status |-> "False", s3 |-> s3Dir]
    ELSE IF oc = "OtherError" THEN [status |-> "raise", s3 |-> s3Dir]
    ELSE IF oc = "ClientError" THEN [status |-> "False", s3 |-> s3Dir]
    ELSE [status |-> "True", s3 |-> [s3Dir EXCEPT ![f] = content]]

\* POST /api/upload
UploadPdf(name, content, oc) ==
    IF ~EndsWithPdf(name)
    THEN /\ ret' = [op |-> "upload", status |-> "error"]
         /\ UNCHANGED <<s3Enabled, hasPypdf, localDir, s3Dir, collection, index, nextId, req>>
    ELSE LET u == upload_file_to_s3(name, content, oc) IN
         /\ localDir' = [localDir EXCEPT ![name] = content]
         /\ s3Dir' = u.s3
         /\ ret' = [op |-> "upload",
                    status |-> IF ~is_s3_enabled THEN "success"
                               ELSE IF u.status = "raise" THEN "raised"
                               ELSE IF u.status = "False" THEN "warning"
                               ELSE "success"]
         /\ UNCHANGED <<s3Enabled, hasPypdf, collection, index, nextId, req>>

-----------------------------------------------------------------------------
(* main.load_display_names, save_display_names *)

\* The value of a key the display-name object does not hold (a stored
\* display name is never empty: line 263).
NoName == <<>>

NoNames == [f \in Files |-> NoName]

\* display_names.json: absent, a JSON object (file name -> display name), or
\* a file json.load cannot parse.
NoNamesFile == [kind |-> "none", map |-> NoNames]
NamesJson(map) == [kind |-> "json", map |-> map]
NamesUnreadable == [kind |-> "unreadable", map |-> NoNames]

\* load_display_names(): {} when the file is absent or cannot be loaded.
load_display_names == namesFile.map

\* How save_display_names ends: the object is written; open(..., "w") raises
\* and the file stays as it was; or json.dump raises after open truncated
\* the file. The exception is caught and printed (lines 77-78) in both.
SaveOutcomes == {"ok", "open raises", "dump raises"}

\* save_display_names(display_names): the file after.
save_display_names(display_names, oc) ==
    IF oc = "ok" THEN NamesJson(display_names)
    ELSE IF oc = "open raises" THEN namesFile
    ELSE NamesUnreadable

-----------------------------------------------------------------------------
(* main.delete_pdf, main.set_display_name *)

\* delete_file_from_s3(f): the value returned ("True"/"False") or "raise", and
\* the bucket after. delete_object succeeds for a key the bucket lacks.
delete_file_from_s3(f, oc) ==
    IF ~is_s3_enabled THEN [status |-> "False", s3 |-> s3Dir]
    ELSE IF oc = "OtherError" THEN [status |-> "raise", s3 |-> s3Dir]
    ELSE IF oc = "ClientError" THEN [status |-> "False", s3 |-> s3Dir]
    ELSE [status |-> "True", s3 |-> [g \in Files |-> IF g = f THEN NoFile ELSE s3Dir[g]]]

\* The display names without the key f.
WithoutName(names, f) == [g \in Files |-> IF g = f THEN NoName ELSE names[g]]

\* filename in display_names
HasName(names, f) == f \in Files /\ names[f] # NoName

\* What delete_pdf returns and leaves behind. steps lists the removals it
\* reached ("save": the display names were written back); indexDeleted is
\* what delete_pdf_from_database returned.
DeleteOutcome(f, status, steps, d, s3, local, names) ==
    [ret |-> [op |-> "delete_pdf", arg |-> f, status |-> status, steps |-> steps,
              indexDeleted |-> d.result],
     collection |-> d.collection, s3 |-> s3, local |-> local, names |-> names]

\* delete_pdf with a step 1 whose failure ends the request.
DeletePdfStopsOnIndexFailure(filename, chromaOc, s3Oc, saveOc) ==
    LET d == delete_pdf_from_database(filename, chromaOc)
        s == delete_file_from_s3(filename, s3Oc)
        names == load_display_names
        first == IF is_s3_enabled THEN <<"index", "s3">> ELSE <<"index">>
        file == IF is_s3_enabled THEN s.s3 ELSE s3Dir
    IN  IF ~d.result
        THEN DeleteOutcome(filename, "error", <<"index">>, d, s3Dir, localDir, namesFile)
        ELSE IF is_s3_enabled /\ s.status = "raise"
        THEN DeleteOutcome(filename, "error", first, d, s3Dir, localDir, namesFile)
        ELSE DeleteOutcome(filename, "success",
                 first \o <<"local", "names">>
                       \o (IF HasName(names, filename) THEN <<"save">> ELSE <<>>),
                 d, file,
                 [g \in Files |-> IF g = filename THEN NoFile ELSE localDir[g]],
                 IF HasName(names, filename)
                 THEN save_display_names(WithoutName(names, filename), saveOc)
                 ELSE namesFile)

\* delete_pdf for a non-empty filename, lines 218-241: step 1 (its result is
\* dropped), step 2 (an exception other than ClientError reaches line 239),
\* step 3, step 4.
delete_pdf(filename, chromaOc, s3Oc, saveOc) ==
    LET d == delete_pdf_from_database(filename, chromaOc)
        s == delete_file_from_s3(filename, s3Oc)
        names == load_display_names
        first == IF is_s3_enabled THEN <<"index", "s3">> ELSE <<"index">>
        file == IF is_s3_enabled THEN s.s3 ELSE s3Dir
    IN  IF is_s3_enabled /\ s.status = "raise"
        THEN DeleteOutcome(filename, "error", first, d, s3Dir, localDir, namesFile)
        ELSE DeleteOutcome(filename, "success",
                 first \o <<"local", "names">>
                       \o (IF HasName(names, filename) THEN <<"save">> ELSE <<>>),
                 d, file,
                 [g \in Files |-> IF g = filename THEN NoFile ELSE localDir[g]],
                 IF HasName(names, filename)
                 THEN save_display_names(WithoutName(names, filename), saveOc)
                 ELSE namesFile)

\* The filenames a delete or set-display-name request may carry; "" stands
\* for a missing or empty "filename".
RequestNames == Files \cup {"missing.pdf", ""}

\* POST /api/delete-pdf
DeletePdf(filename, chromaOc, s3Oc, saveOc) ==
    IF filename = ""
    THEN /\ ret' = [op |-> "delete_pdf", arg |-> filename, status |-> "error",
                    steps |-> <<>>, indexDeleted |-> TRUE]
         /\ UNCHANGED <<corpusVars, req, namesVars>>
    ELSE LET o == delete_pdf(filename, chromaOc, s3Oc, saveOc) IN
         /\ ret' = o.ret
         /\ collection' = o.collection
         /\ s3Dir' = o.s3
         /\ localDir' = o.local
         /\ namesFile' = o.names
         /\ UNCHANGED <<s3Enabled, hasPypdf, index, nextId, req>>

\* The display names a request may carry: a name between blanks, and blanks.
NamePadded == <<" ", "L", "1", " ">>
NameBlank == <<" ">>
DisplayNames == {NamePadded, NameBlank}

\* set_display_name, lines 250-277: what it answers and the file after.
set_display_name(filename, name, saveOc) ==
    LET display_name == Strip(name)
        display_names == load_display_names
        updated == IF display_name # <<>>
                   THEN [display_names EXCEPT ![filename] = display_name]
                   ELSE IF HasName(display_names, filename)
                   THEN WithoutName(display_names, filename)
                   ELSE display_names
    IN  IF filename = "" \/ ~Exists(filename, localDir)
        THEN [ret |-> [op |-> "set_display_name", arg |-> filename, status |-> "error"],
              names |-> namesFile]
        ELSE [ret |-> [op |-> "set_display_name", arg |-> filename, status |-> "success"],
              names |-> save_display_names(updated, saveOc)]

\* POST /api/set-display-name
SetDisplayName(filename, name, saveOc) ==
    LET o == set_display_name(filename, name, saveOc) IN
    /\ ret' = o.ret
    /\ namesFile' = o.names
    /\ UNCHANGED <<corpusVars, req>>

-----------------------------------------------------------------------------
(* The corpus and index specification *)

EmptyDir == [f \in Files |-> NoFile]

\* The process has started (initialize_index() ran at import, line 288) on an
\* empty upload directory and an empty collection; with S3 enabled the bucket
\* may already hold PDFs.
Init ==
    /\ s3Enabled \in BOOLEAN
    /\ hasPypdf = TRUE
    /\ localDir = EmptyDir
    /\ s3Dir \in IF s3Enabled THEN {EmptyDir, [EmptyDir EXCEPT !["a.pdf"] = PdfOne]}
                 ELSE {EmptyDir}
    /\ collection = {}
    /\ index = 0
    /\ nextId = 0
    /\ req = [op |-> "none"]
    /\ ret = [op |-> "none"]
    /\ namesFile = NoNamesFile
    /\ rows = <<>>
    /\ pending = <<>>

Next ==
    \/ /\ \E name \in UploadNames, content \in StorePdfs,
             oc \in (IF s3Enabled THEN S3Outcomes ELSE {"ok"}) :
              UploadPdf(name, content, oc)
       /\ UNCHANGED <<namesVars, chatVars>>
    \/ Ingest /\ UNCHANGED <<namesVars, chatVars>>
    \/ /\ \E f \in DeleteNames, oc \in ChromaOutcomes : DeleteSource(f, oc)
       /\ UNCHANGED <<namesVars, chatVars>>
    \/ /\ \E oc \in ChromaOutcomes : Stats(oc)
       /\ UNCHANGED <<namesVars, chatVars>>

Spec == Init /\ [][Next]_vars

\* How the calls of a delete-pdf request may end: an outcome is drawn only
\* for a call the request makes.
DeleteOutcomes(f) ==
    [chroma : ChromaOutcomes,
     s3 : IF s3Enabled THEN S3Outcomes ELSE {"ok"},
     save : IF HasName(load_display_names, f) THEN SaveOutcomes ELSE {"ok"}]

\* The operations that change corpus and index: upload, ingest, delete-pdf.
FilesNext ==
    \/ /\ \E name \in UploadNames, content \in {PdfOne},
             oc \in (IF s3Enabled THEN S3Outcomes ELSE {"ok"}) :
              UploadPdf(name, content, oc)
       /\ UNCHANGED <<namesVars, chatVars>>
    \/ Ingest /\ UNCHANGED <<namesVars, chatVars>>
    \/ /\ \E f \in RequestNames : \E oc \in DeleteOutcomes(f) :
              DeletePdf(f, oc.chroma, oc.s3, oc.save)
       /\ UNCHANGED chatVars

SpecFiles == Init /\ [][FilesNext]_vars

\* The operations that change files and display names: upload,
\* set-display-name, delete-pdf.
NamesNext ==
    \/ /\ \E name \in UploadNames, content \in StorePdfs,
             oc \in (IF s3Enabled THEN S3Outcomes ELSE {"ok"}) :
              UploadPdf(name, content, oc)
       /\ UNCHANGED <<namesVars, chatVars>>
    \/ /\ \E f \in RequestNames, name \in DisplayNames, oc \in SaveOutcomes :
              SetDisplayName(f, name, oc)
       /\ UNCHANGED chatVars
    \/ /\ \E f \in RequestNames : \E oc \in DeleteOutcomes(f) :
              DeletePdf(f, oc.chroma, oc.s3, oc.save)
       /\ UNCHANGED chatVars

SpecNames == Init /\ [][NamesNext]_vars

-----------------------------------------------------------------------------
(* The query specification: the page resolver and query_rag applied to
   requests drawn from bounded sets. *)

\* Snippets: 60 characters whose first 50 are the key TX TY; the same key
\* behind a leading blank; ten blanks; nine and ten characters; a text no
\* page holds; the empty snippet.
SnipFull == TX \o TY \o TZ
SnipLead == <<" ">> \o TX \o TY
SnipBlank == Rep(" ", 10)
SnipShort == Rep("x", 9)
SnipTen == Rep("w", 10)
SnipAbsent == Rep("q", 12)
SnipEmpty == <<>>

Snippets == {SnipFull, SnipLead, SnipBlank, SnipShort, SnipTen, SnipAbsent, SnipEmpty}

\* The upload directories a request may meet.
QueryDirs ==
    {[f \in Files |-> IF f = "a.pdf" THEN PdfScan ELSE PdfSkip],
     [f \in Files |-> IF f = "a.pdf" THEN NoFile ELSE Corrupt],
     [f \in Files |-> IF f = "a.pdf" THEN PdfOne ELSE NoFile],
     [f \in Files |-> IF f = "a.pdf" THEN PdfSkip ELSE PdfNoPages]}

\* The source nodes a response may carry.
NodeCands ==
    {[file_name |-> "a.pdf", page_label |-> "1", content |-> SnipFull],
     [file_name |-> "a.pdf", page_label |-> "2", content |-> SnipAbsent],
     [file_name |-> "b.pdf", page_label |-> "1", content |-> SnipFull],
     [file_name |-> Absent, page_label |-> Absent, content |-> SnipTen],
     [file_name |-> "a.pdf", page_label |-> Absent, content |-> SnipShort]}

\* The answers the language model may give: the canonical refusal, the refusal
\* inside a longer answer, a text that only starts like the refusal, and an
\* answer from the material.
AnswerEmbedded == <<"S", "o", "r", "r", "y", ".", " ">> \o CanonicalRefusal
AnswerPartial == <<"I", " ", "c", "a", "n", "n", "o", "t", " ", "f", "i", "n", "d", " ", "t", "h", "i", "s">>
AnswerNewton == <<"F", "=", "m", "a">>

Answers == {CanonicalRefusal, AnswerEmbedded, AnswerPartial, AnswerNewton}

SeqsUpTo(S, n) == UNION {[1..k -> S] : k \in 0..n}

\* oc: how query_engine.query (a query request) or the S3 download (a resolve
\* request) ends.
QueryReqs ==
    [op : {"query"}, answer : Answers, nodes : SeqsUpTo(NodeCands, MaxNodes), oc : {"ok"}]
    \cup {[op |-> "query", answer |-> AnswerNewton, nodes |-> <<>>, oc |-> "raise"]}

ResolveReqs == [op : {"resolve"}, file : Files, snippet : Snippets, oc : S3Outcomes]

QInit ==
    /\ s3Enabled \in BOOLEAN
    /\ hasPypdf \in BOOLEAN
    /\ localDir \in QueryDirs
    /\ s3Dir = IF s3Enabled THEN [EmptyDir EXCEPT !["a.pdf"] = PdfScan] ELSE EmptyDir
    /\ collection = {}
    /\ index = 0
    /\ nextId = 0
    /\ req \in QueryReqs \cup ResolveReqs
    /\ ret = [op |-> "none"]
    /\ namesFile = NoNamesFile
    /\ rows = <<>>
    /\ pending = <<>>

\* query_rag(question, system_prompt) on the engine's response req: index is
\* set since import (line 288), so line 167 does not run; an exception of the
\* engine is re-raised (lines 246-250).
QueryRag ==
    /\ req.op = "query"
    /\ ret.op = "none"
    /\ ret' = IF req.oc = "raise" THEN [op |-> "query_rag", status |-> "raised"]
              ELSE QueryResult(req.answer, req.nodes, localDir)
    /\ UNCHANGED <<s3Enabled, hasPypdf, localDir, s3Dir, collection, index, nextId, req>>

\* A call get_accurate_page_number(PDF_UPLOAD_DIR / req.file, req.snippet).
ResolvePage ==
    /\ req.op = "resolve"
    /\ ret.op = "none"
    /\ LET r == get_accurate_page_number(req.file, req.snippet, req.oc, localDir) IN
       /\ localDir' = r.local
       /\ ret' = [op |-> "resolve", page |-> r.page]
    /\ UNCHANGED <<s3Enabled, hasPypdf, s3Dir, collection, index, nextId, req>>

QNext ==
    \/ QueryRag /\ UNCHANGED <<namesVars, chatVars>>
    \/ ResolvePage /\ UNCHANGED <<namesVars, chatVars>>

SpecQuery == QInit /\ [][QNext]_vars

-----------------------------------------------------------------------------
(* db.save_message, db.get_history, its.apply_its_mode, main.query_ai *)

\* apply_its_mode(question, mode)
apply_its_mode(question, mode) ==
    IF mode = "hint"
    THEN "Give a helpful hint without revealing the full answer.\n\nQuestion:\n" \o question
    ELSE IF mode = "socratic"
    THEN "Guide the student using questions instead of direct answers.\n\nQuestion:\n" \o question
    ELSE question

\* A row of table conversations (ids are the positions in the table).
Row(anon_user_id, role, content, mode) ==
    [anon_user_id |-> anon_user_id, role |-> role, content |-> content, mode |-> mode]

\* What a statement on db.conn sees: the committed rows and the rows of the
\* connection's own open transaction.
Visible(db) == db.rows \o db.pending

\* How one attempt of save_message ends: INSERT and commit succeed; execute
\* raises sqlite3.Error; or commit raises sqlite3.Error after the INSERT ran
\* (SQLITE_BUSY: the row stays in the connection's open transaction).
AttemptOutcomes == {"ok", "execute raises", "commit raises"}

max_retries == 3

\* Attempt number attempt + 1 of the loop of lines 49-62 on database db with
\* `slept` the sleeps so far; trace[i] is how attempt i ends.
RECURSIVE SaveAttempt(_, _, _, _, _)
SaveAttempt(row, trace, attempt, slept, db) ==
    LET oc == trace[attempt + 1]
        inserted == [db EXCEPT !.pending = Append(db.pending, row)]
        after == IF oc = "execute raises" THEN db ELSE inserted
    IN  IF oc = "ok"
        THEN [status |-> "ok", attempts |-> attempt + 1, slept |-> slept,
              db |-> [rows |-> db.rows \o inserted.pending, pending |-> <<>>]]
        ELSE IF attempt < max_retries - 1
        THEN SaveAttempt(row, trace, attempt + 1, Append(slept, 2 ^ attempt), after)
        ELSE [status |-> "raised", attempts |-> attempt + 1, slept |-> slept, db |-> after]

\* save_message(anon_user_id, role, content, mode)
save_message(anon_user_id, role, content, mode, trace, db) ==
    SaveAttempt(Row(anon_user_id, role, content, mode), trace, 0, <<>>, db)

\* The rows of s that belong to the user, in the order of s.
RECURSIVE OfUser(_, _)
OfUser(s, anon_user_id) ==
    IF s = <<>> THEN <<>>
    ELSE IF Head(s).anon_user_id = anon_user_id
         THEN <<[role |-> Head(s).role, content |-> Head(s).content, mode |-> Head(s).mode]>>
                  \o OfUser(Tail(s), anon_user_id)
         ELSE OfUser(Tail(s), anon_user_id)

\* get_history(anon_user_id) when `failures` attempts in a row raise
\* sqlite3.Error: SELECT ... WHERE anon_user_id = ? ORDER BY id.
get_history(anon_user_id, failures, db) ==
    IF failures >= max_retries THEN [status |-> "raised", conversation |-> <<>>]
    ELSE [status |-> "ok", conversation |-> OfUser(Visible(db), anon_user_id)]

Apology == "I'm having trouble accessing the course materials right now."

\* What query_rag answers when it does not raise.
RealAnswer == "F = m a"
RealCitations == <<"a.pdf (Page 1)">>

\* The record of one save_message call: how it ended, its attempts, its
\* sleeps in seconds, and the rows it added to what the connection sees.
SaveRecord(s, before) ==
    [status |-> s.status, attempts |-> s.attempts, slept |-> s.slept,
     added |-> Len(Visible(s.db)) - Len(Visible(before))]

\* query_ai(req), lines 157-175. ragOcs[i] is how the i-th call of query_rag
\* would end, save1 and save2 are the attempt outcomes of the two
\* save_message calls. An exception of save_message leaves the handler.
query_ai(anon_user_id, question, mode, ragOcs, save1, save2, db) ==
    LET modified_question == apply_its_mode(question, mode)
        failed == ragOcs[1] = "raise"
        answer == IF failed THEN Apology ELSE RealAnswer
        citations == IF failed THEN <<>> ELSE RealCitations
        s1 == save_message(anon_user_id, "user", question, mode, save1, db)
        s2 == save_message(anon_user_id, "assistant", answer, mode, save2, s1.db)
        r1 == SaveRecord(s1, db)
        r2 == SaveRecord(s2, s1.db)
        call == [op |-> "query_ai", anon_user_id |-> anon_user_id, question |-> question,
                 mode |-> mode, asked |-> modified_question, ragOcs |-> ragOcs,
                 ragCalls |-> 1]
    IN  IF s1.status = "raised"
        THEN [ret |-> call @@ [status |-> "raised", saves |-> <<r1>>], db |-> s1.db]
        ELSE IF s2.status = "raised"
        THEN [ret |-> call @@ [status |-> "raised", saves |-> <<r1, r2>>], db |-> s2.db]
        ELSE [ret |-> call @@ [status |-> "ok", saves |-> <<r1, r2>>, content |-> answer,
                               citations |-> citations, role |-> "assistant"],
              db |-> s2.db]

\* The database as the two variables hold it.
Db == [rows |-> rows, pending |-> pending]

\* POST /api/query
QueryAi(anon_user_id, question, mode, ragOcs, save1, save2) ==
    LET o == query_ai(anon_user_id, question, mode, ragOcs, save1, save2, Db) IN
    /\ ret' = o.ret
    /\ rows' = o.db.rows
    /\ pending' = o.db.pending
    /\ UNCHANGED <<corpusVars, req, namesVars>>

\* POST /api/history
GetHistory(anon_user_id, failures) ==
    /\ ret' = [op |-> "get_history", anon_user_id |-> anon_user_id]
                  @@ get_history(anon_user_id, failures, Db)
    /\ UNCHANGED <<corpusVars, req, namesVars, chatVars>>

-----------------------------------------------------------------------------
(* The conversation specifications *)

\* A request is served while the log holds fewer rows than this (faulty runs).
MaxRows == 2

\* Rows the log may hold in the fault-free runs.
MaxTurns == 12

Users == {"u1", "u2"}
Questions == {"What is force?"}
Modes == {"hint", "normal"}

\* How the calls of query_rag end, up to the first that succeeds.
RagTraces ==
    {<<"ok", "ok", "ok">>, <<"raise", "ok", "ok">>, <<"raise", "raise", "raise">>}

\* How the attempts of one save_message call end, up to the first that
\* succeeds.
SaveTraces ==
    {t \in [1..max_retries -> AttemptOutcomes] :
        \A i \in 1..max_retries : t[i] = "ok" => \A j \in i..max_retries : t[j] = "ok"}

AllOk == [i \in 1..max_retries |-> "ok"]

ChatInit ==
    /\ s3Enabled = FALSE
    /\ hasPypdf = TRUE
    /\ localDir = EmptyDir
    /\ s3Dir = EmptyDir
    /\ collection = {}
    /\ index = 0
    /\ nextId = 0
    /\ req = [op |-> "none"]
    /\ ret = [op |-> "none"]
    /\ namesFile = NoNamesFile
    /\ rows = <<>>
    /\ pending = <<>>

\* Queries and history reads with every failure of query_rag and of the
\* database.
ChatNext ==
    \/ /\ Len(Visible(Db)) < MaxRows
       /\ \E u \in Users, q \in Questions, m \in Modes, ragOcs \in RagTraces,
             save1 \in SaveTraces, save2 \in SaveTraces :
              QueryAi(u, q, m, ragOcs, save1, save2)
    \/ \E u \in Users, failures \in {0, max_retries} : GetHistory(u, failures)

SpecChat == ChatInit /\ [][ChatNext]_vars

\* Queries and history reads in which nothing fails.
HistoryNext ==
    \/ /\ Len(Visible(Db)) + 2 <= MaxTurns
       /\ \E u \in Users, q \in Questions :
              QueryAi(u, q, "normal", AllOk, AllOk, AllOk)
    \/ \E u \in Users : GetHistory(u, 0)

SpecHistory == ChatInit /\ [][HistoryNext]_vars

-----------------------------------------------------------------------------
(* Claims about query_rag (checked under SpecQuery) *)

\* The (file_name, page_label) of each retrieved node, in retrieval order.
NodePairs == [i \in 1..Len(req.nodes) |-> NodeCitation(req.nodes[i], localDir)]

\* Where a (file_name, page_label) first occurs among the retrieved nodes.
FirstIndex(c) ==
    CHOOSE i \in 1..Len(req.nodes) :
        NodePairs[i] = c /\ \A j \in 1..(i - 1) : NodePairs[j] # c

Answered == ret.op = "query_rag" /\ ret.status = "ok"

\* C1: in every query_rag response the citations are the strings of
\* (file_name, page_label) keys of retrieved nodes, no key (and no string)
\* occurs twice, and they stand in the order in which their keys first occur
\* among the retrieved nodes.
C1_CitationsDedupedInFirstSeenOrder ==
    Answered =>
        /\ Len(ret.citations) = Len(ret.cited)
        /\ \A i \in 1..Len(ret.cited) :
              /\ ret.citations[i] = CitationText(ret.cited[i])
              /\ \E k \in 1..Len(req.nodes) : NodePairs[k] = ret.cited[i]
        /\ \A i, j \in 1..Len(ret.cited) :
              i < j => /\ ret.cited[i] # ret.cited[j]
                       /\ ret.citations[i] # ret.citations[j]
                       /\ FirstIndex(ret.cited[i]) < FirstIndex(ret.cited[j])

\* Three nodes were retrieved, the first and the third with the same key, the
\* second with another: two citations came back.
C1_Witness ==
    /\ Answered
    /\ Len(req.nodes) = 3
    /\ NodePairs[1] = NodePairs[3]
    /\ NodePairs[1] # NodePairs[2]
    /\ req.nodes[1] # req.nodes[3]
    /\ Len(ret.citations) = 2

\* C2: an answer containing the refusal phrase comes back with no citations,
\* however many nodes were retrieved, and the page resolver did not run.
C2_RefusalHasNoCitations ==
    (Answered /\ Contains(ret.answer, RefusalPhrase)) =>
        (ret.citations = <<>> /\ ret.calls = 0)

\* The refusal inside a longer answer, with two or more nodes retrieved whose
\* PDFs are there to be scanned.
C2_Witness ==
    /\ Answered
    /\ ret.answer = AnswerEmbedded
    /\ Len(req.nodes) >= 2
    /\ \A i \in 1..Len(req.nodes) : Resolves(req.nodes[i], localDir)
    /\ ret.citations = <<>>

-----------------------------------------------------------------------------
(* Claims about the index (checked under Spec) *)

EntriesOf(f) == {e \in collection : e.file_name = f}

\* C3: when delete_pdf_from_database(f) has returned True the collection holds
\* no entry whose file_name is f (so no query can retrieve one), and a second
\* call on the same f, the collection answering, returns True again.
C3_DeleteRemovesEveryEntry ==
    /\ [](ret.op = "delete_source" /\ ret.result => EntriesOf(ret.arg) = {})
    /\ [][\A f \in DeleteNames :
            (ret.op = "delete_source" /\ ret.arg = f /\ ret.result /\ DeleteSource(f, "ok"))
                => (ret'.result /\ collection' = collection)]_vars

\* Both files were indexed; the delete of one file's entries returned True and
\* left the other file's.
C3_Witness ==
    /\ ret.op = "delete_source"
    /\ ret.result
    /\ ret.arg \in Files
    /\ nextId >= 2
    /\ Cardinality(collection) < nextId
    /\ \E e \in collection : e.file_name # ret.arg

\* C4: delete_pdf_from_database(f) removes nothing but entries whose file_name
\* is f: every other entry stays as it was; on a collection with no entry for
\* f (the collection answering) it returns True and the count is unchanged.
C4_DeleteTouchesOnlyTarget ==
    [][\A f \in DeleteNames, oc \in ChromaOutcomes :
        DeleteSource(f, oc) =>
            /\ collection' \subseteq collection
            /\ \A e \in collection : e.file_name # f => e \in collection'
            /\ (EntriesOf(f) = {} /\ oc = "ok") =>
                  (ret'.result /\ Cardinality(collection') = Cardinality(collection))]_vars

\* delete_source("missing.pdf") returned True on a collection that holds
\* entries of other files.
C4_Witness ==
    /\ ret.op = "delete_source"
    /\ ret.arg = "missing.pdf"
    /\ ret.result
    /\ collection # {}

\* C5: an ingest whose directory (after the S3 sync) yields zero documents
\* returns status "error" and leaves the index as it was: the index object is
\* not replaced and the collection is the same. (Only Ingest sets ret.op to
\* "ingest", so ret'.op names the step.)
C5_EmptyIngestLeavesIndex ==
    [][(ret'.op = "ingest" /\ ret'.status # "raised"
          /\ LoadData(SortedFiles, localDir') = <<>>)
        => (ret'.status = "error" /\ index' = index /\ collection' = collection)]_vars

\* An ingest found only a PDF without pages ("No PDFs found") while the
\* collection held entries of an earlier ingest.
C5_Witness ==
    /\ ret.op = "ingest"
    /\ ret.status = "error"
    /\ ret.message = "No PDFs found"
    /\ LoadData(SortedFiles, localDir) = <<>>
    /\ collection # {}
    /\ index >= 1

\* C6 (as claimed): right after a successful ingest, get_index_stats()'s
\* document_count equals the document_count that ingest returned.
C6_StatsEqualsIngestCount ==
    (ret.op = "ingest" /\ ret.status = "success") =>
        get_index_stats("ok").document_count = ret.document_count

\* C7 (as claimed): an ingest in which a step failed (the S3 listing or a
\* download, the load, the index write) returns status "error": it neither
\* raises nor returns "success".
C7_IngestFailureIsError ==
    (ret.op = "ingest" /\ ret.stepFailed) => ret.status = "error"

\* C8 (as claimed): right after a successful ingest the collection holds
\* exactly the entries derived from the PDFs in the directory, one per loaded
\* document, so a second ingest of an unchanged directory changes nothing.
C8_IngestRebuildsIndex ==
    (ret.op = "ingest" /\ ret.status = "success") =>
        LET docs == LoadData(SortedFiles, localDir) IN
        /\ Cardinality(collection) = Len(docs)
        /\ {[file_name |-> e.file_name, page_label |-> e.page_label, text |-> e.text] :
               e \in collection} = {docs[i] : i \in 1..Len(docs)}

-----------------------------------------------------------------------------
(* Claims about the page resolver (checked under SpecQuery) *)

Resolved == ret.op = "resolve"

\* The file at the resolver's path once it has returned (fetched from S3 when
\* it was missing and the download worked).
ScannedFile == localDir[req.file]

\* Whether some page of pdf, its text extracted, holds key.
SomePageHolds(pdf, key) ==
    \E n \in 1..Len(pdf.pages) : pdf.pages[n] # PageErr /\ Contains(pdf.pages[n], key)

\* C9 (amended): the resolver never raises, and returns "?" for a snippet
\* shorter than 10 characters, for a PDF that is missing or cannot be opened,
\* and whenever no page's text holds the first 30 characters of the search
\* key (the snippet's first 50 characters, stripped).
C9_ResolverSoftFails ==
    Resolved =>
        /\ ret.page # "raise"
        /\ Len(req.snippet) < MinSnippetLen => ret.page = Unknown
        /\ ~IsPdf(ScannedFile) => ret.page = Unknown
        /\ (IsPdf(ScannedFile)
              /\ ~SomePageHolds(ScannedFile,
                                Take(Strip(Take(req.snippet, SearchKeyLen)), PrefixLen)))
            => ret.page = Unknown

\* pypdf is there, the PDF has pages, the 12-character snippet is on none of
\* them: "?" came back.
C9_Witness ==
    /\ Resolved
    /\ hasPypdf
    /\ req.snippet = SnipAbsent
    /\ IsPdf(ScannedFile)
    /\ Len(ScannedFile.pages) >= 2
    /\ ret.page = Unknown

\* C9 (as claimed): as above, but "?" whenever the snippet itself occurs on no
\* page of the document.
C9_AbsentSnippetIsUnknown ==
    Resolved =>
        /\ ret.page # "raise"
        /\ Len(req.snippet) < MinSnippetLen => ret.page = Unknown
        /\ ~IsPdf(ScannedFile) => ret.page = Unknown
        /\ (IsPdf(ScannedFile) /\ ~SomePageHolds(ScannedFile, req.snippet))
            => ret.page = Unknown

\* The pages of pdf a key matches: the page's text can be extracted and holds
\* the key or the key's first 30 characters.
MatchingPages(pdf, key) ==
    {n \in 1..Len(pdf.pages) :
        /\ pdf.pages[n] # PageErr
        /\ \/ Contains(pdf.pages[n], key)
           \/ Contains(pdf.pages[n], Take(key, PrefixLen))}

\* The 1-based number, as a string, of the first page of pdf that key matches,
\* "?" when there is none.
FirstMatch(pdf, key) ==
    IF MatchingPages(pdf, key) = {} THEN Unknown
    ELSE ToString(CHOOSE n \in MatchingPages(pdf, key) :
                      \A m \in MatchingPages(pdf, key) : n <= m)

\* The resolver opened a PDF for a snippet of 10 characters or more.
Scanned ==
    Resolved /\ hasPypdf /\ IsPdf(ScannedFile) /\ Len(req.snippet) >= MinSnippetLen

\* C10 (amended): for a snippet of at least 10 characters the resolver returns
\* the number of the first page, in page order from 1, whose text holds the
\* search key or the key's first 30 characters, the key being the snippet's
\* first 50 characters stripped of leading and trailing whitespace; a page
\* whose extraction raises is skipped; "?" when no page matches.
C10_FirstMatchingPage ==
    Scanned => ret.page = FirstMatch(ScannedFile, Strip(Take(req.snippet, SearchKeyLen)))

\* The first page's extraction raised, the second holds the key of a snippet
\* that starts with a blank: "2" came back.
C10_Witness ==
    /\ Scanned
    /\ ScannedFile = PdfSkip
    /\ req.snippet = SnipLead
    /\ ret.page = "2"

\* C10 (as claimed): the same with the snippet's first 50 characters as they
\* are for the key.
C10_FirstPageOfRawKey ==
    Scanned => ret.page = FirstMatch(ScannedFile, Take(req.snippet, SearchKeyLen))

-----------------------------------------------------------------------------
(* Claims about the citation's page label (checked under SpecQuery) *)

\* What get_accurate_page_number gives for the node's file and text when its
\* S3 download, if it makes one, succeeds. A name outside the corpus is a
\* file that is neither local nor in the bucket.
ResolverResult(node) ==
    IF MetaFileName(node) \in Files
    THEN get_accurate_page_number(MetaFileName(node), node.content, "ok", localDir).page
    ELSE Unknown

\* The page label the claim gives the node's citation.
ClaimedLabel(node) ==
    IF ResolverResult(node) # Unknown THEN ResolverResult(node)
    ELSE MetaPageLabel(node)

\* C11 (as claimed): for every retrieved node of an answered query that cites,
\* the label of the node's citation is the page resolver's result for the
\* node's file and text, and the stored page_label exactly when the resolver
\* yields "?".
C11_LabelIsResolverResult ==
    (Answered /\ ~IsRefusal(req.answer)) =>
        \A i \in 1..Len(req.nodes) :
            \E k \in 1..Len(ret.cited) :
                ret.cited[k] = [file_name |-> MetaFileName(req.nodes[i]),
                                page_label |-> ClaimedLabel(req.nodes[i])]

-----------------------------------------------------------------------------
(* Claims about delete-pdf and the display names (checked under SpecNames) *)

\* Whether step is among the steps the last delete-pdf reached.
Reached(r, step) == \E i \in 1..Len(r.steps) : r.steps[i] = step

\* C12: an error of the index delete is reported by delete_source as a false
\* result with the collection as it was, never raised; a delete-pdf request
\* whose index cleanup failed still goes on to the remote object, and, unless
\* the remote delete itself raises, removes the local file, drops the
\* display name and answers success.
C12_DeleteProceedsAfterIndexFailure ==
    /\ [](\A f \in Files \cup {"missing.pdf"} :
             delete_pdf_from_database(f, "error")
                 = [result |-> FALSE, collection |-> collection])
    /\ [][(ret'.op = "delete_pdf" /\ ret'.arg # "" /\ ~ret'.indexDeleted) =>
            /\ collection' = collection
            /\ ret'.steps[1] = "index"
            /\ s3Enabled => Reached(ret', "s3")
            /\ ret'.status = "error" => s3Enabled /\ ret'.steps = <<"index", "s3">>
            /\ ret'.status = "success" =>
                  /\ Reached(ret', "local") /\ Reached(ret', "names")
                  /\ ~Exists(ret'.arg, localDir')
                  /\ HasName(load_display_names, ret'.arg) => Reached(ret', "save")
                  /\ namesFile' # namesFile => ~HasName(namesFile'.map, ret'.arg)]_vars

\* The index delete failed for a.pdf, which had a display name; the request
\* answered success, the bucket's object, the local file and the name are gone,
\* b.pdf and its name are still there.
C12_Witness ==
    /\ ret.op = "delete_pdf" /\ ret.arg = "a.pdf"
    /\ ~ret.indexDeleted
    /\ ret.status = "success"
    /\ ret.steps = <<"index", "s3", "local", "names", "save">>
    /\ s3Dir["a.pdf"] = NoFile /\ localDir["a.pdf"] = NoFile
    /\ namesFile.kind = "json"
    /\ ~HasName(namesFile.map, "a.pdf") /\ HasName(namesFile.map, "b.pdf")
    /\ localDir["b.pdf"] # NoFile

-----------------------------------------------------------------------------
(* Claims about /api/query and the conversation log (checked under SpecChat;
   C15 under SpecHistory) *)

Completed == ret.op = "query_ai" /\ ret.status = "ok"

\* The calls of query_rag that would have succeeded.
RagSuccesses == {i \in 1..Len(ret.ragOcs) : ret.ragOcs[i] = "ok"}

\* C13 (as claimed): a completed query called query_rag until a call
\* succeeded, three times at most, and its content is the apology only when
\* all three calls raised; a first failure followed by a success gives the
\* real answer.
C13_ApologyOnlyAfterRetries ==
    Completed =>
        /\ ret.ragCalls = IF RagSuccesses = {} THEN Len(ret.ragOcs)
                          ELSE CHOOSE i \in RagSuccesses : \A j \in RagSuccesses : i <= j
        /\ ret.content = Apology <=> RagSuccesses = {}

\* C14 (as claimed): every /api/query request ends with a normal response
\* whose content is the synthesized answer or the fixed message, whatever
\* fails in query_rag or in save_message.
C14_QueryAlwaysAnswers ==
    ret.op = "query_ai" => /\ ret.status = "ok"
                           /\ ret.content \in {RealAnswer, Apology}

\* The history the claim describes: the user's turns, oldest first, the most
\* recent HistoryLimit of them.
HistoryLimit == 10

LastN(s, n) == IF Len(s) <= n THEN s ELSE SubSeq(s, Len(s) - n + 1, Len(s))

\* C15 (as claimed): a history read returns the user's own turns in
\* chronological order, oldest first, and only the 10 most recent of them.
C15_HistoryIsRecentTen ==
    (ret.op = "get_history" /\ ret.status = "ok") =>
        ret.conversation = LastN(OfUser(Visible(Db), ret.anon_user_id), HistoryLimit)

\* C18 (as claimed): every save_message call made at most 3 attempts, slept
\* 1 s after the first failure and 2 s after the second, added exactly one
\* row when it returned, and raised only after its third attempt failed.
C18_SaveAddsExactlyOneRow ==
    ret.op = "query_ai" =>
        \A k \in 1..Len(ret.saves) :
            LET sv == ret.saves[k] IN
            /\ sv.attempts <= 3
            /\ sv.slept = SubSeq(<<1, 2>>, 1, IF sv.status = "ok" THEN sv.attempts - 1 ELSE 2)
            /\ sv.status = "raised" => sv.attempts = 3
            /\ sv.status = "ok" => sv.added = 1

\* The user's turns alternate user, assistant, starting with user.
Alternates(u) ==
    LET h == OfUser(Visible(Db), u) IN
    \A i \in 1..Len(h) : h[i].role = IF i % 2 = 1 THEN "user" ELSE "assistant"

\* C19 (as claimed): a completed query appended exactly two rows to the log,
\* next to each other: the user's turn with the question as it was asked,
\* then the assistant's turn with the content returned; every user's history
\* alternates user, assistant.
C19_QueryAppendsOneExchange ==
    /\ [](\A u \in Users : Alternates(u))
    /\ [][(ret'.op = "query_ai" /\ ret'.status = "ok" /\ <<rows, pending, ret>>' # <<rows, pending, ret>>) =>
            Visible(Db)' = Visible(Db) \o
                <<Row(ret'.anon_user_id, "user", ret'.question, ret'.mode),
                  Row(ret'.anon_user_id, "assistant", ret'.content, ret'.mode)>>]_vars

-----------------------------------------------------------------------------
(* Claims about corpus and index under upload, ingest and delete-pdf (checked
   under SpecFiles), and about the display names (checked under SpecNames) *)

\* Every entry's file_name names a PDF in the upload directory.
NoOrphans == \A e \in collection : Exists(e.file_name, localDir)

\* C16: the index starts without orphaned entries, and the only step of
\* upload, ingest and delete-pdf after which an entry names a PDF that is not
\* in the corpus is a delete-pdf whose index delete failed; so no state
\* reached without a failed index delete has an orphan.
C16_OrphansOnlyAfterFailedIndexDelete ==
    /\ [](ret.op = "none" => NoOrphans)
    /\ [][(NoOrphans /\ ~NoOrphans') =>
            (ret'.op = "delete_pdf" /\ ~ret'.indexDeleted)]_vars

\* Both files were ingested; a delete-pdf whose index delete succeeded took
\* one file and its entry away, the other file's entry is in place.
C16_Witness ==
    /\ ret.op = "delete_pdf" /\ ret.status = "success" /\ ret.indexDeleted
    /\ ret.arg \in Files
    /\ nextId = 2
    /\ Cardinality(collection) = 1
    /\ EntriesOf(ret.arg) = {}
    /\ ~Exists(ret.arg, localDir)
    /\ NoOrphans

\* C17 (as claimed), for the ingest that follows the delete at once: after
\* delete-pdf answered success for f, an ingest creates no entry for f.
C17_NoEntriesAfterDelete ==
    [][(ret.op = "delete_pdf" /\ ret.status = "success" /\ ret.arg \in Files
            /\ ret'.op = "ingest") =>
        {e \in collection' : e.file_name = ret.arg} \subseteq EntriesOf(ret.arg)]_vars

\* C20 (as claimed): every key of the display-name map names a PDF in the
\* upload directory.
C20_NamedFilesExist ==
    \A f \in Files : HasName(load_display_names, f) => Exists(f, localDir)

=============================================================================
